---------------------------- MODULE Spec2Model ----------------------------
(***************************************************************************)
(* Model of the select-mode editing behaviours of terra-draw:              *)
(*   DragCoordinateBehavior  (drag-coordinate.behavior.ts)                 *)
(*   DragFeatureBehavior     (the variant with startDragging/stopDragging  *)
(*                            that rejects out-of-range shifts)            *)
(*   ScaleFeatureBehavior    (scale-feature.behavior.ts)                   *)
(* and, each in a specification of its own,                                *)
(*   the position accessor of the DragFeatureBehavior variant that has one *)
(*   TerraDrawMapboxGLAdapter (render, clear) on a mapboxgl.Map            *)
(*                                                                         *)
(* Numbers.  A longitude or latitude is an integer number of "ticks".      *)
(* The configured coordinatePrecision is 0, so a stored value is at        *)
(* precision when it is a whole number of degrees; one degree is Res       *)
(* ticks, so a pointer event may carry a position finer than the           *)
(* precision.  With Res = 2 every value is a multiple of 0.5 and the       *)
(* arithmetic of the code (differences, Math.round) is exact.              *)
(*                                                                         *)
(* Indices.  Coordinate indices that appear as arguments or results keep   *)
(* the 0-based numbering of the code; At(coords, i) reads coords[i].       *)
(***************************************************************************)
EXTENDS Integers, Sequences, FiniteSets, TLC

VARIABLES
    store,              \* GeoJSONStore: feature id -> geometry
    selectionPoints,    \* SelectionPointBehavior: handle positions, by index
    midPoints,          \* MidPointBehavior: handle positions, by edge
    draggedFeatureId,   \* DragFeatureBehavior.draggedFeatureId
    dragPosition,       \* DragFeatureBehavior.dragPosition
    lastDistance,       \* ScaleFeatureBehavior.lastDistance
    selectedId,         \* the feature the select mode has selected
    last,               \* what the most recent call did (observation only)
    prev,               \* what the call before it did (observation only)
    ops,                \* number of calls made so far
    arrays,             \* the JavaScript arrays allocated so far, by reference
    dragPositionRef,    \* DragFeatureBehavior.dragPosition of the variant with
                        \* the position accessor: a reference, or NoRef
    held,               \* the references the caller of the accessor holds
    access,             \* what the most recent accessor call did
    map,                \* the mapboxgl.Map: its sources and its layers
    rendered,           \* TerraDrawMapboxGLAdapter._rendered
    drawOutline,        \* TerraDrawMapboxGLAdapter._drawOutline
    drawFill,           \* TerraDrawMapboxGLAdapter._drawFill
    currentModeCallbacks,   \* whether _currentModeCallbacks is set
    adapted,            \* what the most recent adapter call did
    gesture             \* the Feature-Drag gesture under way, as it started
                        \* (observation only)

accessVars == <<arrays, dragPositionRef, held, access>>

adapterVars == <<map, rendered, drawOutline, drawFill, currentModeCallbacks,
                 adapted>>

vars == <<store, selectionPoints, midPoints, draggedFeatureId, dragPosition,
          lastDistance, selectedId, last, prev, ops,
          arrays, dragPositionRef, held, access,
          map, rendered, drawOutline, drawFill, currentModeCallbacks, adapted,
          gesture>>

-----------------------------------------------------------------------------
(* Bounds of the model *)

\* ticks per degree: the resolution of a pointer position
Res == 2

\* calls explored in the specifications whose state space is not finite
MaxOps == 3

-----------------------------------------------------------------------------
(* Configuration and numbers *)

\* BehaviorConfig.pointerDistance, in pixels
pointerDistance == 5

Deg(n) == n * Res

Abs(x) == IF x < 0 THEN -x ELSE x

\* Math.round of the rational n / d (d > 0): halves round towards +Infinity
MathRound(n, d) == (2 * n + d) \div (2 * d)

\* limitPrecision(num, coordinatePrecision) of the rational n / d ticks
limitPrecisionQ(n, d) == MathRound(n, d * Res) * Res

\* limitPrecision(num, coordinatePrecision) of a whole number of ticks
limitPrecision(num) == limitPrecisionQ(num, 1)

\* the value of a coordinate computed with a factor that is not finite
\* (Infinity, -Infinity or NaN); no finite coordinate of the model is as large
NonFinite == 1000000000

\* a value that limitPrecision leaves alone
AtPrecision(x) == x # NonFinite /\ x % Res = 0

\* a dragPosition, lastDistance or draggedFeatureId that is not set
undefined == <<>>
null == "null"

-----------------------------------------------------------------------------
(* Geometries *)

Point(p) == [type |-> "Point", coordinates |-> p]
LineString(cs) == [type |-> "LineString", coordinates |-> cs]
Polygon(ring) == [type |-> "Polygon", coordinates |-> <<ring>>]

\* coords[i] with the 0-based index of the code
At(coords, i) == coords[i + 1]

\* an empty slot of an array, as an assignment past the end leaves them; a
\* feature holding one is not Finite
empty == <<NonFinite, NonFinite>>

\* coords after the assignment coords[i] = v: an element replaced, the array
\* grown to length i + 1 at an i at or past the end, with empty slots between
\* the old end and i, and no element touched at a negative i (the assignment
\* then sets a property that is no element of the array)
SetAt(coords, i, v) ==
    IF 0 <= i /\ i < Len(coords) THEN [coords EXCEPT ![i + 1] = v]
    ELSE IF i >= Len(coords)
    THEN coords \o [k \in 1..(i - Len(coords)) |-> empty] \o << v >>
    ELSE coords

\* geometry.coordinates (LineString) or geometry.coordinates[0] (Polygon)
CoordsOf(geometry) ==
    IF geometry.type = "Polygon" THEN geometry.coordinates[1]
    ELSE geometry.coordinates

\* the geometry with that coordinate array replaced
WithCoords(geometry, cs) ==
    IF geometry.type = "Polygon" THEN [geometry EXCEPT !.coordinates = <<cs>>]
    ELSE [geometry EXCEPT !.coordinates = cs]

\* every position of a geometry, as a sequence
Positions(geometry) ==
    IF geometry.type = "Point" THEN <<geometry.coordinates>>
    ELSE CoordsOf(geometry)

Ids == {"pt", "ls", "pg"}

\* a pointer event; (containerX, containerY) is the projection of (lng, lat)
Event(lng, lat, sd) ==
    [lng |-> lng, lat |-> lat, containerX |-> lng, containerY |-> -lat,
     setDraggability |-> sd]


-----------------------------------------------------------------------------
(* The store and the handle managers *)

\* one entry of the list handed to store.updateGeometry
FeatureUpdate(id, geometry) ==
    [kind |-> "feature", id |-> id, index |-> 0, geometry |-> geometry]

HandleUpdate(kind, i, p) ==
    [kind |-> kind, id |-> "", index |-> i, geometry |-> Point(p)]

\* SelectionPointBehavior.create: one handle per coordinate, none for the
\* closing coordinate of a Polygon ring
createSelectionPoints(geometry) ==
    IF geometry.type = "Point" THEN <<>>
    ELSE LET cs == CoordsOf(geometry)
             n == IF geometry.type = "Polygon" THEN Len(cs) - 1 ELSE Len(cs)
         IN  [i \in 1..n |-> cs[i]]

\* the midpoint of two positions, at the configured precision
midpoint(a, b) ==
    [k \in 1..2 |->
        IF a[k] = NonFinite \/ b[k] = NonFinite THEN NonFinite
        ELSE limitPrecisionQ(a[k] + b[k], 2)]

\* MidPointBehavior.create: one handle per pair of consecutive coordinates
createMidPoints(geometry) ==
    IF geometry.type = "Point" THEN <<>>
    ELSE LET cs == CoordsOf(geometry)
         IN  [i \in 1..(Len(cs) - 1) |-> midpoint(cs[i], cs[i + 1])]

\* SelectionPointBehavior.getUpdated(updatedCoords): the existing handles, in
\* place, moved to the coordinates of their index
getUpdatedSelectionPoints(updatedCoords) ==
    [i \in 1..Len(selectionPoints) |->
        HandleUpdate("selectionPoint", i - 1,
                     IF i <= Len(updatedCoords) THEN updatedCoords[i]
                     ELSE selectionPoints[i])]

\* MidPointBehavior.getUpdated(updatedCoords): the existing handles, in
\* place, moved to the midpoints of their edges
getUpdatedMidPoints(updatedCoords) ==
    [i \in 1..Len(midPoints) |->
        HandleUpdate("midPoint", i - 1,
                     IF i + 1 <= Len(updatedCoords)
                     THEN midpoint(updatedCoords[i], updatedCoords[i + 1])
                     ELSE midPoints[i])]

\* featureAndHandles with the handles derived from the coordinates the
\* feature had before the call
featureAndStaleHandles(id, geometry, updatedCoords) ==
    << FeatureUpdate(id, WithCoords(geometry, updatedCoords)) >>
        \o getUpdatedSelectionPoints(CoordsOf(geometry))
        \o getUpdatedMidPoints(CoordsOf(geometry))

\* the list handed to updateGeometry for a moved LineString or Polygon
featureAndHandles(id, geometry, updatedCoords) ==
    << FeatureUpdate(id, WithCoords(geometry, updatedCoords)) >>
        \o getUpdatedSelectionPoints(updatedCoords)
        \o getUpdatedMidPoints(updatedCoords)

\* store.updateGeometry(list): every listed record replaced, atomically
updatedStore(list) ==
    [id \in Ids |->
        LET mine == SelectSeq(list, LAMBDA u : u.kind = "feature" /\ u.id = id)
        IN  IF mine = <<>> THEN store[id] ELSE mine[Len(mine)].geometry]

updatedHandles(handles, list, kind) ==
    [i \in 1..Len(handles) |->
        LET mine == SelectSeq(list, LAMBDA u : u.kind = kind /\ u.index = i - 1)
        IN  IF mine = <<>> THEN handles[i] ELSE mine[Len(mine)].geometry.coordinates]

\* the effect on the store of a handler that made these updateGeometry calls
\* (at most one in every handler modelled here)
Commit(calls) ==
    IF calls = <<>>
    THEN UNCHANGED <<store, selectionPoints, midPoints>>
    ELSE /\ store' = updatedStore(calls[1])
         /\ selectionPoints' = updatedHandles(selectionPoints, calls[1], "selectionPoint")
         /\ midPoints' = updatedHandles(midPoints, calls[1], "midPoint")

\* the state a call starts from, kept for the properties
Pre ==
    [store |-> store, selectionPoints |-> selectionPoints,
     midPoints |-> midPoints, draggedFeatureId |-> draggedFeatureId,
     dragPosition |-> dragPosition, lastDistance |-> lastDistance]

\* the record of a call: its arguments, result, updateGeometry calls and
\* setDraggability calls
Call(op, id, index, event, ret, updates, draggability) ==
    [op |-> op, id |-> id, index |-> index, event |-> event, ret |-> ret,
     updates |-> updates, draggability |-> draggability, pre |-> Pre]

NoEvent == Event(0, 0, FALSE)

\* event.setDraggability(false), when the event carries setDraggability
setDraggabilityFalse(event) ==
    IF event.setDraggability THEN <<FALSE>> ELSE <<>>

-----------------------------------------------------------------------------
(* PixelDistanceBehavior *)

\* project(lng, lat): one pixel per tick, y downwards
project(lng, lat) == [x |-> lng, y |-> -lat]

\* the square of PixelDistanceBehavior.measure(event, coord); distances are
\* only compared, and a < b iff a^2 < b^2 for distances
measureSquared(event, coord) ==
    LET p == project(coord[1], coord[2])
        dx == p.x - event.containerX
        dy == p.y - event.containerY
    IN  dx * dx + dy * dy

-----------------------------------------------------------------------------
(* DragCoordinateBehavior *)

\* closestCoordinate.dist before any coordinate qualified
Infinity == -1

RECURSIVE scanCoordinatesAtTolerance(_, _, _, _)
\* scanCoordinates with "distance <= this.pointerDistance"
scanCoordinatesAtTolerance(event, geometry, i, closestCoordinate) ==
    LET geomCoordinates == CoordsOf(geometry) IN
    IF i >= Len(geomCoordinates) THEN closestCoordinate
    ELSE
        LET distance == measureSquared(event, At(geomCoordinates, i))
            isFirstOrLastPolygonCoord ==
                /\ geometry.type = "Polygon"
                /\ (i = Len(geomCoordinates) - 1 \/ i = 0)
        IN  IF /\ distance <= pointerDistance * pointerDistance
               /\ (closestCoordinate.dist = Infinity
                   \/ distance < closestCoordinate.dist)
            THEN scanCoordinatesAtTolerance(event, geometry, i + 1,
                    [dist |-> distance,
                     index |-> IF isFirstOrLastPolygonCoord THEN 0 ELSE i,
                     isFirstOrLastPolygonCoord |-> isFirstOrLastPolygonCoord])
            ELSE scanCoordinatesAtTolerance(event, geometry, i + 1, closestCoordinate)

RECURSIVE scanCoordinatesLastWins(_, _, _, _)
\* scanCoordinates where a later coordinate at the same distance replaces the
\* closest one and the index is reported as scanned
scanCoordinatesLastWins(event, geometry, i, closestCoordinate) ==
    LET geomCoordinates == CoordsOf(geometry) IN
    IF i >= Len(geomCoordinates) THEN closestCoordinate
    ELSE
        LET distance == measureSquared(event, At(geomCoordinates, i))
        IN  IF /\ distance < pointerDistance * pointerDistance
               /\ (closestCoordinate.dist = Infinity
                   \/ distance <= closestCoordinate.dist)
            THEN scanCoordinatesLastWins(event, geometry, i + 1,
                    [dist |-> distance, index |-> i,
                     isFirstOrLastPolygonCoord |-> FALSE])
            ELSE scanCoordinatesLastWins(event, geometry, i + 1, closestCoordinate)

RECURSIVE scanCoordinates(_, _, _, _)
\* the loop of isCoordinateNearEvent from index i on
scanCoordinates(event, geometry, i, closestCoordinate) ==
    LET geomCoordinates == CoordsOf(geometry) IN
    IF i >= Len(geomCoordinates) THEN closestCoordinate
    ELSE
        LET distance == measureSquared(event, At(geomCoordinates, i))
            isFirstOrLastPolygonCoord ==
                /\ geometry.type = "Polygon"
                /\ (i = Len(geomCoordinates) - 1 \/ i = 0)
        IN  IF /\ distance < pointerDistance * pointerDistance
               /\ (closestCoordinate.dist = Infinity
                   \/ distance < closestCoordinate.dist)
            THEN scanCoordinates(event, geometry, i + 1,
                    [dist |-> distance,
                     index |-> IF isFirstOrLastPolygonCoord THEN 0 ELSE i,
                     isFirstOrLastPolygonCoord |-> isFirstOrLastPolygonCoord])
            ELSE scanCoordinates(event, geometry, i + 1, closestCoordinate)

\* isCoordinateNearEvent(event, selectedId) on the geometry read from the store
isCoordinateNearEvent(event, geometry) ==
    IF geometry.type \notin {"LineString", "Polygon"} THEN -1
    ELSE scanCoordinates(event, geometry, 0,
            [dist |-> Infinity, index |-> -1,
             isFirstOrLastPolygonCoord |-> FALSE]).index

\* dragCoordinateGeometry without the coupling of the first and last
\* coordinate of a Polygon ring
dragCoordinateGeometryUncoupled(event, geometry, index) ==
    WithCoords(geometry, SetAt(CoordsOf(geometry), index, <<event.lng, event.lat>>))

\* the geometry DragCoordinateBehavior.drag commits
dragCoordinateGeometry(event, geometry, index) ==
    LET geomCoordinates == CoordsOf(geometry)
        updatedCoordinate == <<event.lng, event.lat>>
        isFirstOrLastPolygonCoord ==
            /\ geometry.type = "Polygon"
            /\ (index = Len(geomCoordinates) - 1 \/ index = 0)
        lastCoordIndex == Len(geomCoordinates) - 1
    IN  IF isFirstOrLastPolygonCoord
        THEN WithCoords(geometry,
                SetAt(SetAt(geomCoordinates, 0, updatedCoordinate),
                      lastCoordIndex, updatedCoordinate))
        ELSE WithCoords(geometry, SetAt(geomCoordinates, index, updatedCoordinate))

\* dragCoordinateUpdates with the handles in the list, as the other
\* behaviours have them
dragCoordinateUpdatesWithHandles(event, id, index) ==
    LET geometry == dragCoordinateGeometry(event, store[id], index)
    IN  << featureAndHandles(id, geometry, CoordsOf(geometry)) >>

\* the updateGeometry calls of DragCoordinateBehavior.drag
dragCoordinateUpdates(event, id, index) ==
    <<  << FeatureUpdate(id, dragCoordinateGeometry(event, store[id], index)) >>  >>

IsCoordinateNearEvent(event, id) ==
    /\ last' = Call("isCoordinateNearEvent", id, -1, event,
                    isCoordinateNearEvent(event, store[id]), <<>>, <<>>)
    /\ UNCHANGED <<store, selectionPoints, midPoints, draggedFeatureId,
                   dragPosition, lastDistance, selectedId>>

DragCoordinateDrag(event, id, index) ==
    LET geometry == store[id] IN
    /\ IF geometry.type \notin {"LineString", "Polygon"}
       THEN /\ last' = Call("dragCoordinate", id, index, event, "false", <<>>, <<>>)
            /\ Commit(<<>>)
       ELSE LET updates == dragCoordinateUpdates(event, id, index)
            IN  /\ last' = Call("dragCoordinate", id, index, event, "true",
                                updates, setDraggabilityFalse(event))
                /\ Commit(updates)
    /\ UNCHANGED <<draggedFeatureId, dragPosition, lastDistance, selectedId>>

-----------------------------------------------------------------------------
(* DragFeatureBehavior, the variant that rejects out-of-range shifts *)

\* the bounds of a valid longitude and latitude, in degrees
MaxLng == 180
MaxLat == 90

\* the negation of the test "updatedLng > 180 || updatedLng < -180 ||
\* updatedLat > 90 || updatedLat < -90"
validCoordinate(updatedLng, updatedLat) ==
    ~ \/ updatedLng > Deg(MaxLng)
      \/ updatedLng < -Deg(MaxLng)
      \/ updatedLat > Deg(MaxLat)
      \/ updatedLat < -Deg(MaxLat)

\* dragPosition - mouseCoord
dragDelta(position, mouseCoord) ==
    <<position[1] - mouseCoord[1], position[2] - mouseCoord[2]>>

\* shifted with the delta applied the wrong way round
shiftedTowardsAnchor(coordinate, delta) ==
    <<coordinate[1] + delta[1], coordinate[2] + delta[2]>>

\* coordinate - delta, before the range test and the rounding
shifted(coordinate, delta) ==
    <<coordinate[1] - delta[1], coordinate[2] - delta[2]>>

\* the value stored for a shifted coordinate
shiftedCoordinate(coordinate, delta) ==
    <<limitPrecision(shifted(coordinate, delta)[1]),
      limitPrecision(shifted(coordinate, delta)[2])>>

\* the number of coordinates the loop of drag visits
upToCoordOf(geometry) ==
    IF geometry.type = "Polygon" THEN Len(CoordsOf(geometry)) - 1
    ELSE Len(CoordsOf(geometry))

\* dragRejected testing the latitude only
dragRejectedLatitudeOnly(geometry, position, mouseCoord) ==
    \E i \in 1..upToCoordOf(geometry) :
        LET c == shifted(CoordsOf(geometry)[i], dragDelta(position, mouseCoord))
        IN  ~validCoordinate(0, c[2])

\* TRUE when the loop of drag returns false at some coordinate
dragRejected(geometry, position, mouseCoord) ==
    \E i \in 1..upToCoordOf(geometry) :
        LET c == shifted(CoordsOf(geometry)[i], dragDelta(position, mouseCoord))
        IN  ~validCoordinate(c[1], c[2])

\* closeRing leaving the closing coordinate where it was
closeRingOmitted(geometry, updatedCoords) == updatedCoords

\* the ring closure: "Set final coordinate identical to first"
closeRing(geometry, updatedCoords) ==
    IF geometry.type = "Polygon"
    THEN SetAt(updatedCoords, Len(updatedCoords) - 1, updatedCoords[1])
    ELSE updatedCoords

\* updatedCoords when the loop of drag completes
dragFeatureCoords(geometry, position, mouseCoord) ==
    LET cs == CoordsOf(geometry)
        moved == [i \in 1..Len(cs) |->
                    IF i <= upToCoordOf(geometry)
                    THEN shiftedCoordinate(cs[i], dragDelta(position, mouseCoord))
                    ELSE cs[i]]
    IN  closeRing(geometry, moved)

\* dragPositionAfterReject advancing the anchor although nothing moved
dragPositionAdvanced(position, mouseCoord) == mouseCoord

\* dragPosition after a tick that returned false: it is not assigned
dragPositionAfterReject(position, mouseCoord) == position

\* dragPositionAfterCommit leaving the anchor where the gesture started
dragPositionKept(position, mouseCoord) == position

\* dragPosition after a tick that committed: "this.dragPosition =
\* [event.lng, event.lat]"
dragPositionAfterCommit(position, mouseCoord) == mouseCoord

StartDragging(event, id) ==
    /\ draggedFeatureId' = id
    /\ dragPosition' = <<event.lng, event.lat>>
    /\ last' = Call("startDragging", id, -1, event, "undefined", <<>>, <<>>)
    /\ UNCHANGED <<store, selectionPoints, midPoints, lastDistance, selectedId>>

\* StopDragging clearing the anchor but not the dragged feature id
StopDraggingKeepsId ==
    /\ UNCHANGED draggedFeatureId
    /\ dragPosition' = undefined
    /\ last' = Call("stopDragging", "", -1, NoEvent, "undefined", <<>>, <<>>)
    /\ UNCHANGED <<store, selectionPoints, midPoints, lastDistance, selectedId>>

StopDragging ==
    /\ draggedFeatureId' = null
    /\ dragPosition' = undefined
    /\ last' = Call("stopDragging", "", -1, NoEvent, "undefined", <<>>, <<>>)
    /\ UNCHANGED <<store, selectionPoints, midPoints, lastDistance, selectedId>>

\* isDragging()
isDragging == draggedFeatureId # null

DragFeatureDrag(event) ==
    LET mouseCoord == <<event.lng, event.lat>>
        id == IF isDragging THEN draggedFeatureId ELSE ""
    IN
    /\ IF draggedFeatureId = null
       THEN /\ last' = Call("dragFeature", id, -1, event, "undefined", <<>>, <<>>)
            /\ Commit(<<>>)
            /\ UNCHANGED dragPosition
       ELSE LET geometry == store[draggedFeatureId] IN
            IF geometry.type \in {"Polygon", "LineString"}
            THEN IF dragPosition = undefined
                    \/ dragRejected(geometry, dragPosition, mouseCoord)
                 THEN /\ last' = Call("dragFeature", id, -1, event, "false", <<>>, <<>>)
                      /\ Commit(<<>>)
                      /\ dragPosition' = dragPositionAfterReject(dragPosition, mouseCoord)
                 ELSE LET updatedCoords ==
                              dragFeatureCoords(geometry, dragPosition, mouseCoord)
                          updates ==
                              << featureAndHandles(id, geometry, updatedCoords) >>
                      IN  /\ last' = Call("dragFeature", id, -1, event,
                                          "undefined", updates, <<>>)
                          /\ Commit(updates)
                          /\ dragPosition' = dragPositionAfterCommit(dragPosition, mouseCoord)
            ELSE LET updates == << << FeatureUpdate(id, Point(mouseCoord)) >> >>
                 IN  /\ last' = Call("dragFeature", id, -1, event,
                                     "undefined", updates, <<>>)
                     /\ Commit(updates)
                     /\ dragPosition' = dragPositionAfterCommit(dragPosition, mouseCoord)
    /\ UNCHANGED <<draggedFeatureId, lastDistance, selectedId>>

-----------------------------------------------------------------------------
(* ScaleFeatureBehavior *)

\* the coordinates centroid() averages: all of a LineString, a Polygon ring
\* without its closing coordinate
centroidCoords(geometry) ==
    SubSeq(CoordsOf(geometry), 1, upToCoordOf(geometry))

RECURSIVE SumOf(_, _)
SumOf(cs, k) == IF cs = <<>> THEN 0 ELSE Head(cs)[k] + SumOf(Tail(cs), k)

\* centroid(feature), as the rational position (sum[1] / n, sum[2] / n)
centroid(geometry) ==
    LET cs == centroidCoords(geometry)
    IN  [sum |-> <<SumOf(cs, 1), SumOf(cs, 2)>>, n |-> Len(cs)]

\* numerator and denominator of a distance <<num, den>>
Num(d) == d[1]
Den(d) == d[2]

\* haversineDistanceKilometers(centroid, mouseCoord) as the rational num / den.
\* The model measures along the axes: what the behaviour needs of a distance
\* is that it is 0 exactly at the centroid and positive elsewhere.
haversineDistanceKilometers(c, mouseCoord) ==
    << Abs(mouseCoord[1] * c.n - c.sum[1]) + Abs(mouseCoord[2] * c.n - c.sum[2]),
       c.n >>

\* "!this.lastDistance": undefined and 0 are both falsy
noLastDistance(d) == d = undefined \/ Num(d) = 0

\* scaleFactor without the "1 -": (distance - lastDistance) / distance
scaleFactorWithoutOne(lastD, distance) ==
    [num |-> Num(distance) * Den(lastD) - Num(lastD) * Den(distance),
     den |-> Num(distance) * Den(lastD),
     finite |-> Num(distance) # 0]

\* scale = 1 - (lastDistance - distance) / distance, as the rational
\* num / den; at distance 0 the quotient is not finite
scaleFactor(lastD, distance) ==
    [num |-> 2 * Num(distance) * Den(lastD) - Num(lastD) * Den(distance),
     den |-> Num(distance) * Den(lastD),
     finite |-> Num(distance) # 0]

\* one ordinate after transformScale about the centroid c, then limitPrecision
scaledValue(v, csum, n, factor) ==
    IF ~factor.finite \/ v = NonFinite THEN NonFinite
    ELSE limitPrecisionQ(csum * factor.den + factor.num * (v * n - csum),
                         n * factor.den)

\* updatedCoords: transformScale applied to every coordinate, each then
\* rounded by limitPrecision
scaledCoords(geometry, factor) ==
    LET cs == CoordsOf(geometry)
        c == centroid(geometry)
    IN  [i \in 1..Len(cs) |->
            <<scaledValue(cs[i][1], c.sum[1], c.n, factor),
              scaledValue(cs[i][2], c.sum[2], c.n, factor)>>]

\* Reset leaving the baseline of the gesture before in place
ResetKeepsDistance ==
    /\ UNCHANGED lastDistance
    /\ last' = Call("reset", "", -1, NoEvent, "undefined", <<>>, <<>>)
    /\ UNCHANGED <<store, selectionPoints, midPoints, draggedFeatureId,
                   dragPosition, selectedId>>

Reset ==
    /\ lastDistance' = undefined
    /\ last' = Call("reset", "", -1, NoEvent, "undefined", <<>>, <<>>)
    /\ UNCHANGED <<store, selectionPoints, midPoints, draggedFeatureId,
                   dragPosition, selectedId>>

\* Scale suspending the map's drag handling before it looks at the geometry
ScaleSuspendsFirst(event, id) ==
    LET geometry == store[id]
        mouseCoord == <<event.lng, event.lat>>
    IN
    /\ IF geometry.type # "Polygon" /\ geometry.type # "LineString"
       THEN /\ last' = Call("scale", id, -1, event, "undefined", <<>>,
                            setDraggabilityFalse(event))
            /\ Commit(<<>>)
            /\ UNCHANGED lastDistance
       ELSE LET distance ==
                    haversineDistanceKilometers(centroid(geometry), mouseCoord)
            IN  IF noLastDistance(lastDistance)
                THEN /\ lastDistance' = distance
                     /\ last' = Call("scale", id, -1, event, "undefined", <<>>,
                                     setDraggabilityFalse(event))
                     /\ Commit(<<>>)
                ELSE LET updatedCoords ==
                             scaledCoords(geometry, scaleFactor(lastDistance, distance))
                         updates ==
                             << featureAndHandles(id, geometry, updatedCoords) >>
                     IN  /\ last' = Call("scale", id, -1, event, "undefined",
                                         updates, setDraggabilityFalse(event))
                         /\ Commit(updates)
                         /\ lastDistance' = distance
    /\ UNCHANGED <<draggedFeatureId, dragPosition, selectedId>>

Scale(event, id) ==
    LET geometry == store[id]
        mouseCoord == <<event.lng, event.lat>>
    IN
    /\ IF geometry.type # "Polygon" /\ geometry.type # "LineString"
       THEN /\ last' = Call("scale", id, -1, event, "undefined", <<>>, <<>>)
            /\ Commit(<<>>)
            /\ UNCHANGED lastDistance
       ELSE LET distance ==
                    haversineDistanceKilometers(centroid(geometry), mouseCoord)
            IN  IF noLastDistance(lastDistance)
                THEN /\ lastDistance' = distance
                     /\ last' = Call("scale", id, -1, event, "undefined", <<>>,
                                     setDraggabilityFalse(event))
                     /\ Commit(<<>>)
                ELSE LET updatedCoords ==
                             scaledCoords(geometry, scaleFactor(lastDistance, distance))
                         updates ==
                             << featureAndHandles(id, geometry, updatedCoords) >>
                     IN  /\ last' = Call("scale", id, -1, event, "undefined",
                                         updates, setDraggabilityFalse(event))
                         /\ Commit(updates)
                         /\ lastDistance' = distance
    /\ UNCHANGED <<draggedFeatureId, dragPosition, selectedId>>

-----------------------------------------------------------------------------
(* DragFeatureBehavior, the variant with the position accessor: the anchor
   is an array on the heap, so that a copy and an alias differ *)

\* the reference of no array: undefined
NoRef == 0

\* JavaScript values an array element can be
Number(n) == [typeof |-> "number", v |-> n]
String == [typeof |-> "string", v |-> 0]

\* what a caller can assign to position: undefined, an array (by
\* reference), or a value that is no array
Undefined == [kind |-> "undefined", ref |-> NoRef]
Array(ref) == [kind |-> "array", ref |-> ref]
NoArray == [kind |-> "object", ref |-> NoRef]

\* array.concat(): a new array with the same elements
concat(ref) == Append(arrays, arrays[ref])

\* the test that guards the throw: "!Array.isArray(newPosition) ||
\* newPosition.length !== 2 || typeof newPosition[0] !== "number" ||
\* typeof newPosition[1] !== "number""
notAPosition(newPosition) ==
    \/ newPosition.kind # "array"
    \/ Len(arrays[newPosition.ref]) # 2
    \/ arrays[newPosition.ref][1].typeof # "number"
    \/ arrays[newPosition.ref][2].typeof # "number"

\* the record of an accessor call: the value passed, the reference returned,
\* whether it threw, and the anchor it started from
Access(op, arg, ret, threw) ==
    [op |-> op, arg |-> arg, ret |-> ret, threw |-> threw,
     before |-> IF dragPositionRef = NoRef THEN <<>> ELSE arrays[dragPositionRef],
     beforeRef |-> dragPositionRef]

\* the setter keeping the array it was handed as the anchor
SetPositionAliased(newPosition) ==
    /\ IF newPosition.kind = "undefined"
       THEN /\ dragPositionRef' = NoRef
            /\ access' = Access("set", newPosition, NoRef, FALSE)
            /\ UNCHANGED arrays
       ELSE IF notAPosition(newPosition)
       THEN /\ access' = Access("set", newPosition, NoRef, TRUE)
            /\ UNCHANGED <<arrays, dragPositionRef>>
       ELSE /\ UNCHANGED arrays
            /\ dragPositionRef' = newPosition.ref
            /\ access' = Access("set", newPosition, NoRef, FALSE)
    /\ UNCHANGED held

\* set position(newPosition)
SetPosition(newPosition) ==
    /\ IF newPosition.kind = "undefined"
       THEN /\ dragPositionRef' = NoRef
            /\ access' = Access("set", newPosition, NoRef, FALSE)
            /\ UNCHANGED arrays
       ELSE IF notAPosition(newPosition)
       THEN /\ access' = Access("set", newPosition, NoRef, TRUE)
            /\ UNCHANGED <<arrays, dragPositionRef>>
       ELSE /\ arrays' = concat(newPosition.ref)
            /\ dragPositionRef' = Len(arrays) + 1
            /\ access' = Access("set", newPosition, NoRef, FALSE)
    /\ UNCHANGED held

\* get position(); the caller keeps the array it gets
GetPosition ==
    /\ IF dragPositionRef # NoRef
       THEN /\ arrays' = concat(dragPositionRef)
            /\ held' = held \union {Len(arrays) + 1}
            /\ access' = Access("get", Undefined, Len(arrays) + 1, FALSE)
       ELSE /\ UNCHANGED <<arrays, held>>
            /\ access' = Access("get", Undefined, NoRef, FALSE)
    /\ UNCHANGED dragPositionRef

\* the caller builds an array and keeps it
NewArray(elements) ==
    /\ arrays' = Append(arrays, elements)
    /\ held' = held \union {Len(arrays) + 1}
    /\ access' = Access("new", Undefined, Len(arrays) + 1, FALSE)
    /\ UNCHANGED dragPositionRef

\* the caller assigns an element of an array it holds: array[i] = value
Mutate(ref, i, value) ==
    /\ arrays' = [arrays EXCEPT ![ref] = SetAt(arrays[ref], i, value)]
    /\ access' = Access("mutate", Array(ref), NoRef, FALSE)
    /\ UNCHANGED <<dragPositionRef, held>>

-----------------------------------------------------------------------------
(* DragFeatureBehavior, the variant with the position accessor: drag, which
   clamps the latitude part of the delta *)

\* the latitude, in degrees, validateDeltaRange is called with: -85 and 85
ClampLat == 85

\* this.dragPosition as a position
anchorOf(ref) == <<arrays[ref][1].v, arrays[ref][2].v>>

\* delta after validateDeltaRange(deltaIdx, position, min, max): both tests
\* read the updatedCoordinate computed on entry
validateDeltaRange(delta, deltaIdx, position, min, max) ==
    LET updatedCoordinate == At(position, deltaIdx) - At(delta, deltaIdx)
        low == IF updatedCoordinate < min
               THEN SetAt(delta, deltaIdx, min - At(position, deltaIdx))
               ELSE delta
    IN  IF updatedCoordinate > max
        THEN SetAt(low, deltaIdx, max - At(position, deltaIdx))
        ELSE low

RECURSIVE clampedDelta(_, _, _, _)
\* delta after the first loop of drag has visited the coordinates i..upToCoord-1
clampedDelta(delta, updatedCoords, i, upToCoord) ==
    IF i >= upToCoord THEN delta
    ELSE clampedDelta(
            validateDeltaRange(delta, 1, At(updatedCoords, i),
                               -Deg(ClampLat), Deg(ClampLat)),
            updatedCoords, i + 1, upToCoord)

\* updatedCoords after the second loop and the ring closure
clampDragCoords(geometry, position, mouseCoord) ==
    LET cs == CoordsOf(geometry)
        delta == clampedDelta(dragDelta(position, mouseCoord), cs, 0,
                              upToCoordOf(geometry))
        moved == [i \in 1..Len(cs) |->
                    IF i <= upToCoordOf(geometry) THEN shifted(cs[i], delta)
                    ELSE cs[i]]
    IN  closeRing(geometry, moved)

\* drag(event, selectedId) of this variant
ClampDrag(event, id) ==
    LET geometry == store[id]
        mouseCoord == <<event.lng, event.lat>>
    IN
    /\ IF geometry.type \in {"Polygon", "LineString"}
       THEN IF dragPositionRef = NoRef
            THEN /\ last' = Call("clampDrag", id, -1, event, "false", <<>>,
                                 setDraggabilityFalse(event))
                 /\ Commit(<<>>)
            ELSE LET updatedCoords ==
                         clampDragCoords(geometry, anchorOf(dragPositionRef),
                                         mouseCoord)
                     updates ==
                         << featureAndHandles(id, geometry, updatedCoords) >>
                 IN  /\ last' = Call("clampDrag", id, -1, event, "undefined",
                                     updates, setDraggabilityFalse(event))
                     /\ Commit(updates)
       ELSE LET updates == << << FeatureUpdate(id, Point(mouseCoord)) >> >>
            IN  /\ last' = Call("clampDrag", id, -1, event, "undefined",
                                updates, setDraggabilityFalse(event))
                /\ Commit(updates)
    /\ UNCHANGED <<draggedFeatureId, dragPosition, lastDistance, selectedId>>

-----------------------------------------------------------------------------
(* The mapboxgl.Map behind TerraDrawMapboxGLAdapter: sources with their
   data, and layers from the bottom one to the top one.  A call that names
   a source or layer the map does not have, or adds one it has already, is
   outside what the adapter's sources define: the map either reports it and
   carries on or throws, and "strict" says which. *)

hasSource(m, id) == \E i \in 1..Len(m.sources) : m.sources[i].id = id
hasLayer(m, id) == \E i \in 1..Len(m.layers) : m.layers[i].id = id

\* the calls the adapter makes on the map
addSource(id, features) ==
    [call |-> "addSource", id |-> id, source |-> "", features |-> features]
addLayer(id, source) ==
    [call |-> "addLayer", id |-> id, source |-> source, features |-> <<>>]
moveLayer(id) ==
    [call |-> "moveLayer", id |-> id, source |-> "", features |-> <<>>]
removeLayer(id) ==
    [call |-> "removeLayer", id |-> id, source |-> "", features |-> <<>>]
removeSource(id) ==
    [call |-> "removeSource", id |-> id, source |-> "", features |-> <<>>]
setData(id, features) ==
    [call |-> "setData", id |-> id, source |-> "", features |-> features]

\* TRUE when the call is one the map has nothing to apply to; getSource(id)
\* of a source the map lacks is undefined, so setData on it always throws
misses(m, c) ==
    CASE c.call = "addSource" -> hasSource(m, c.id)
      [] c.call = "addLayer" -> hasLayer(m, c.id)
      [] c.call \in {"moveLayer", "removeLayer"} -> ~hasLayer(m, c.id)
      [] c.call \in {"removeSource", "setData"} -> ~hasSource(m, c.id)

\* the map after a call that applies
applied(m, c) ==
    CASE c.call = "addSource" ->
            [m EXCEPT !.sources = Append(@, [id |-> c.id, features |-> c.features])]
      [] c.call = "addLayer" ->
            [m EXCEPT !.layers = Append(@, [id |-> c.id, source |-> c.source])]
      [] c.call = "moveLayer" ->
            [m EXCEPT !.layers =
                SelectSeq(@, LAMBDA l : l.id # c.id)
                    \o SelectSeq(@, LAMBDA l : l.id = c.id)]
      [] c.call = "removeLayer" ->
            [m EXCEPT !.layers = SelectSeq(@, LAMBDA l : l.id # c.id)]
      [] c.call = "removeSource" ->
            [m EXCEPT !.sources = SelectSeq(@, LAMBDA x : x.id # c.id)]
      [] c.call = "setData" ->
            [m EXCEPT !.sources =
                [i \in 1..Len(@) |->
                    IF @[i].id = c.id THEN [@[i] EXCEPT !.features = c.features]
                    ELSE @[i]]]

RECURSIVE called(_, _, _)
\* the map after the calls of one adapter method, in order, and whether one
\* of them threw (the calls after it are then not made)
called(m, calls, strict) ==
    IF calls = <<>> THEN [map |-> m, threw |-> FALSE]
    ELSE IF misses(m, Head(calls))
    THEN IF strict \/ Head(calls).call = "setData"
         THEN [map |-> m, threw |-> TRUE]
         ELSE called(m, Tail(calls), strict)
    ELSE called(applied(m, Head(calls)), Tail(calls), strict)

-----------------------------------------------------------------------------
(* TerraDrawMapboxGLAdapter *)

\* Object.keys(array): the indices of the array, as strings
ObjectKeys(array) ==
    [i \in 1..Len(array) |->
        CASE i = 1 -> "0" [] i = 2 -> "1" [] i = 3 -> "2" [] OTHER -> "3"]

\* string.toLowerCase()
toLowerCase(string) ==
    CASE string = "Point" -> "point"
      [] string = "LineString" -> "linestring"
      [] string = "Polygon" -> "polygon"
      [] OTHER -> string

\* the template `td-${key}`
td(key) ==
    CASE key = "point" -> "td-point"
      [] key = "linestring" -> "td-linestring"
      [] key = "polygon" -> "td-polygon"
      [] key = "0" -> "td-0"
      [] key = "1" -> "td-1"
      [] key = "2" -> "td-2"
      [] OTHER -> "td-"

\* id + "-outline"
outline(id) ==
    CASE id = "td-polygon" -> "td-polygon-outline"
      [] OTHER -> "td-outline"

\* the keys clearLayers iterates over:
\* Object.keys(["point", "linestring", "polygon"])
geometryKeys == ObjectKeys(<<"point", "linestring", "polygon">>)

\* the calls clearLayers makes for one key
clearLayerCalls(geometryKey) ==
    LET id == td(toLowerCase(geometryKey))
    IN  << removeLayer(id) >>
        \o (IF geometryKey = "polygonId" /\ drawOutline
            THEN << removeLayer(outline(id)) >> ELSE <<>>)
        \o << removeSource(id) >>

RECURSIVE forEachKey(_)
forEachKey(keys) ==
    IF keys = <<>> THEN <<>>
    ELSE clearLayerCalls(Head(keys)) \o forEachKey(Tail(keys))

\* the calls _addLayer(id, featureType) makes
addLayerCalls(id, featureType) ==
    CASE featureType = "Point" -> << addLayer(id, id) >>
      [] featureType = "LineString" -> << addLayer(id, id) >>
      [] featureType = "Polygon" ->
            (IF drawFill THEN << addLayer(id, id) >> ELSE <<>>)
            \o (IF drawOutline THEN << addLayer(outline(id), id) >> ELSE <<>>)

\* the calls _addGeoJSONLayer(featureType, features) makes
addGeoJSONLayerCalls(featureType, features) ==
    LET id == td(toLowerCase(featureType))
    IN  << addSource(id, features) >> \o addLayerCalls(id, featureType)

\* the calls _setGeoJSONLayerData(featureType, features) makes
setGeoJSONLayerDataCalls(featureType, features) ==
    << setData(td(toLowerCase(featureType)), features) >>

\* the modes the styling object has a function for
StyledModes == {"select"}

\* a feature of a change set; styled once render has written its style
\* properties
Feature(id, type, mode) == [id |-> id, type |-> type, mode |-> mode, styled |-> FALSE]

\* a change set: TerraDrawChanges
Changes(created, updated, unchanged, deletedIds) ==
    [created |-> created, updated |-> updated, unchanged |-> unchanged,
     deletedIds |-> deletedIds]

NoChanges == Changes(<<>>, <<>>, <<>>, <<>>)

\* includes taking every feature for a changed one
includesNever(list, feature) == FALSE

\* changes.unchanged.includes(feature)
includes(list, feature) == \E i \in 1..Len(list) : list[i].id = feature.id

\* changed.points, changed.linestrings, changed.polygons (unchanged = FALSE)
\* and unchanged.points, ... (unchanged = TRUE) of render: the features of
\* a styled mode and of that geometry type, in the order of the change set,
\* with their style properties written
grouped(changes, type, unchanged) ==
    LET features == changes.created \o changes.updated \o changes.unchanged
        mine == SelectSeq(features,
                    LAMBDA f : /\ f.mode \in StyledModes
                               /\ f.type = type
                               /\ includes(changes.unchanged, f) = unchanged)
    IN  [i \in 1..Len(mine) |-> [mine[i] EXCEPT !.styled = TRUE]]

\* the calls render makes on the map
renderCalls(changes) ==
    LET points == grouped(changes, "Point", FALSE)
        linestrings == grouped(changes, "LineString", FALSE)
        polygons == grouped(changes, "Polygon", FALSE)
        pointId == td(toLowerCase("Point"))
        numDeletedIds == Len(changes.deletedIds)
        isStylingUpdate ==
            /\ numDeletedIds = 0
            /\ Len(changes.created) = 0
            /\ Len(changes.updated) = 0
            /\ Len(changes.unchanged) > 0
        forceUpdate == numDeletedIds > 0 \/ isStylingUpdate
    IN  IF ~rendered
        THEN addGeoJSONLayerCalls("Point", points)
                \o addGeoJSONLayerCalls("LineString", linestrings)
                \o addGeoJSONLayerCalls("Polygon", polygons)
                \o << moveLayer(pointId) >>
        ELSE (IF forceUpdate \/ Len(points) > 0
              THEN setGeoJSONLayerDataCalls("Point",
                        points \o grouped(changes, "Point", TRUE))
              ELSE <<>>)
             \o (IF forceUpdate \/ Len(linestrings) > 0
                 THEN setGeoJSONLayerDataCalls("LineString",
                        linestrings \o grouped(changes, "LineString", TRUE))
                 ELSE <<>>)
             \o (IF forceUpdate \/ Len(polygons) > 0
                 THEN setGeoJSONLayerDataCalls("Polygon",
                        polygons \o grouped(changes, "Polygon", TRUE))
                 ELSE <<>>)

\* the record of an adapter call: the calls it made on the map, whether it
\* threw, how often it called onClear, and the state it started from
Adapted(op, changes, calls, threw, onClear) ==
    [op |-> op, changes |-> changes, calls |-> calls, threw |-> threw, onClear |-> onClear,
     pre |-> [map |-> map, rendered |-> rendered,
              currentModeCallbacks |-> currentModeCallbacks]]

\* register(callbacks) of the base adapter: the mode callbacks are set
Register ==
    /\ currentModeCallbacks' = TRUE
    /\ adapted' = Adapted("register", NoChanges, <<>>, FALSE, 0)
    /\ UNCHANGED <<map, rendered, drawOutline, drawFill>>

\* render(changes, styling)
Render(changes, strict) ==
    LET result == called(map, renderCalls(changes), strict)
    IN  /\ map' = result.map
        /\ rendered' = IF result.threw THEN rendered ELSE TRUE
        /\ adapted' = Adapted("render", changes, renderCalls(changes), result.threw, 0)
        /\ UNCHANGED <<drawOutline, drawFill, currentModeCallbacks>>

\* clear(): onClear() of the mode, then clearLayers()
Clear(strict) ==
    /\ IF currentModeCallbacks
       THEN IF rendered
            THEN LET result == called(map, forEachKey(geometryKeys), strict)
                 IN  /\ map' = result.map
                     /\ rendered' = IF result.threw THEN rendered ELSE FALSE
                     /\ adapted' = Adapted("clear", NoChanges, forEachKey(geometryKeys),
                                           result.threw, 1)
            ELSE /\ adapted' = Adapted("clear", NoChanges, <<>>, FALSE, 1)
                 /\ UNCHANGED <<map, rendered>>
       ELSE /\ adapted' = Adapted("clear", NoChanges, <<>>, FALSE, 0)
            /\ UNCHANGED <<map, rendered>>
    /\ UNCHANGED <<drawOutline, drawFill, currentModeCallbacks>>

-----------------------------------------------------------------------------
(* Initial state and pointer events *)

\* the ring of the specification's scenarios: [[0,0],[0,10],[10,10],[10,0],[0,0]]
InitialStore ==
    [id \in Ids |->
        CASE id = "pt" -> Point(<<Deg(1), Deg(1)>>)
          [] id = "ls" -> LineString(<< <<0, 0>>, <<Deg(4), 0>> >>)
          [] id = "pg" -> Polygon(<< <<0, 0>>, <<0, Deg(10)>>, <<Deg(10), Deg(10)>>,
                                     <<Deg(10), 0>>, <<0, 0>> >>)]

InitRest ==
    /\ draggedFeatureId = null
    /\ dragPosition = undefined
    /\ lastDistance = undefined
    /\ last = Call("new", "", -1, NoEvent, "undefined", <<>>, <<>>)
    /\ prev = last
    /\ ops = 0
    /\ arrays = <<>>
    /\ dragPositionRef = NoRef
    /\ held = {}
    /\ access = Access("new", Undefined, NoRef, FALSE)
    /\ map = [sources |-> <<>>, layers |-> <<>>]
    /\ rendered = FALSE
    /\ currentModeCallbacks = FALSE
    /\ adapted = Adapted("new", NoChanges, <<>>, FALSE, 0)
    /\ gesture = [store |-> store, anchor |-> undefined, accepted |-> undefined,
                  exact |-> TRUE]

\* features at the edge of the valid range, some of their values off
\* precision as Coordinate-Drag leaves them
EdgeStore ==
    [id \in Ids |->
        CASE id = "pt" -> Point(<<Deg(MaxLng), Deg(MaxLat)>>)
          [] id = "ls" -> LineString(<< <<Deg(MaxLng), Deg(MaxLat)>>,
                                        <<Deg(MaxLng - 1) - 1, Deg(MaxLat - 1)>> >>)
          [] id = "pg" -> Polygon(<< <<1, Deg(-MaxLat)>>, <<0, Deg(-MaxLat + 4)>>,
                                     <<Deg(4), Deg(-MaxLat + 1) + 1>>,
                                     <<1, Deg(-MaxLat)>> >>)]

InitFrom(stores) ==
    /\ store \in stores
    /\ selectedId \in Ids
    /\ selectionPoints = createSelectionPoints(store[selectedId])
    /\ midPoints = createMidPoints(store[selectedId])
    /\ InitRest
    /\ drawOutline = TRUE
    /\ drawFill = TRUE

Init == InitFrom({InitialStore})

InitDrag == InitFrom({InitialStore, EdgeStore})

\* the gesture as the call just made leaves it: startDragging begins one,
\* a drag tick that committed is its last accepted tick
Observed(call, storeNow, position) ==
    IF call.op = "startDragging"
    THEN [store |-> storeNow, anchor |-> position, accepted |-> position,
          exact |-> AtPrecision(position[1]) /\ AtPrecision(position[2])]
    ELSE IF call.op = "dragFeature" /\ call.updates # <<>>
    THEN [gesture EXCEPT
            !.accepted = <<call.event.lng, call.event.lat>>,
            !.exact = @ /\ AtPrecision(call.event.lng) /\ AtPrecision(call.event.lat)]
    ELSE gesture

\* one more call, while the bound allows
Tick(max) ==
    /\ ops < max
    /\ ops' = ops + 1
    /\ prev' = last
    /\ gesture' = Observed(last', store', dragPosition')
    /\ UNCHANGED accessVars
    /\ UNCHANGED adapterVars

\* degrees beyond which a feature thrown out of range by a scale tick is not
\* followed any further
FarAway == 300

\* no coordinate of the feature is NonFinite or further out than FarAway:
\* calls on a feature holding such a value are not explored
Finite(geometry) ==
    \A i \in 1..Len(Positions(geometry)) : \A k \in 1..2 :
        /\ Positions(geometry)[i][k] # NonFinite
        /\ Abs(Positions(geometry)[i][k]) <= Deg(FarAway)

-----------------------------------------------------------------------------
(* The three behaviours together, on the selected feature *)

\* pointer positions: half a degree off the origin, the centroid of the
\* initial Polygon (the event of the specification's drag scenario), and a far
\* move that pushes a feature over the latitude bound
Events ==
    { Event(1, 1, TRUE), Event(Deg(5), Deg(5), TRUE), Event(Deg(3), Deg(85), FALSE) }

Next ==
    \/ \E e \in Events :
          \E index \in 0..(Len(Positions(store[selectedId])) - 1) :
              /\ Finite(store[selectedId])
              /\ DragCoordinateDrag(e, selectedId, index)
              /\ Tick(MaxOps)
    \/ \E e \in Events : StartDragging(e, selectedId) /\ Tick(MaxOps)
    \/ StopDragging /\ Tick(MaxOps)
    \/ \E e \in Events :
          /\ isDragging => Finite(store[draggedFeatureId])
          /\ DragFeatureDrag(e)
          /\ Tick(MaxOps)
    \/ \E e \in Events :
          /\ Finite(store[selectedId])
          /\ Scale(e, selectedId)
          /\ Tick(MaxOps)
    \/ Reset /\ Tick(MaxOps)

Spec == Init /\ [][Next]_vars

-----------------------------------------------------------------------------
(* Coordinate-Drag alone: hit test and vertex drag on the selected feature *)

MaxCoordOps == 2

\* pointer positions around the first coordinates: on a coordinate, at
\* exactly pointerDistance from [0,0], between two coordinates, off precision,
\* and far from everything
CoordEvents ==
    { Event(0, 0, TRUE), Event(pointerDistance, 0, TRUE), Event(Deg(2), 0, TRUE),
      Event(3, 4, TRUE), Event(1, 1, FALSE), Event(Deg(30), Deg(40), TRUE) }

NextCoord ==
    \/ \E e \in CoordEvents :
          IsCoordinateNearEvent(e, selectedId) /\ Tick(MaxCoordOps)
    \/ \E e \in CoordEvents :
          \E index \in 0..(Len(Positions(store[selectedId])) - 1) :
              DragCoordinateDrag(e, selectedId, index) /\ Tick(MaxCoordOps)

SpecCoord == Init /\ [][NextCoord]_vars

-----------------------------------------------------------------------------
(* Properties of Coordinate-Drag *)

\* the 0-based indices of the coordinates strictly within the tolerance
NearIndices(event, geometry) ==
    { i \in 0..(Len(CoordsOf(geometry)) - 1) :
        measureSquared(event, At(CoordsOf(geometry), i))
            < pointerDistance * pointerDistance }

\* the first index, in coordinate order, at the least distance among them
FirstClosest(event, geometry) ==
    LET near == NearIndices(event, geometry)
        d(i) == measureSquared(event, At(CoordsOf(geometry), i))
    IN  IF near = {} THEN -1
        ELSE CHOOSE i \in near :
                \A j \in near : d(i) < d(j) \/ (d(i) = d(j) /\ i <= j)

HitTested == last.op = "isCoordinateNearEvent"
HitGeometry == last.pre.store[last.id]

\* C3: isCoordinateNearEvent returns -1 for a Point and when no coordinate is
\* strictly within the tolerance, and otherwise the first index, in scan
\* order, of a coordinate at the least distance among those strictly within it.
C3_ClosestWithinTolerance ==
    HitTested =>
        IF HitGeometry.type = "Point" THEN last.ret = -1
        ELSE last.ret = FirstClosest(last.event, HitGeometry)

\* a hit test on a LineString where a coordinate lies at exactly the
\* tolerance and is passed over for a closer one, and two coordinates tie
C3_Witness ==
    /\ HitTested
    /\ HitGeometry.type = "LineString"
    /\ last.ret >= 0
    /\ \/ \E i \in 0..(Len(CoordsOf(HitGeometry)) - 1) :
            measureSquared(last.event, At(CoordsOf(HitGeometry), i))
                = pointerDistance * pointerDistance
       \/ \E i \in NearIndices(last.event, HitGeometry) :
            /\ i # last.ret
            /\ measureSquared(last.event, At(CoordsOf(HitGeometry), i))
                 = measureSquared(last.event, At(CoordsOf(HitGeometry), last.ret))

\* C4: on a Polygon with ring length n the result is -1 or in 0..n-2, never
\* n-1, and it is 0 whenever the first or the closing coordinate is a closest
\* coordinate within the tolerance.
C4_NeverClosingIndex ==
    (HitTested /\ HitGeometry.type = "Polygon") =>
        LET n == Len(CoordsOf(HitGeometry))
            near == NearIndices(last.event, HitGeometry)
            d(i) == measureSquared(last.event, At(CoordsOf(HitGeometry), i))
            closest == { i \in near : \A j \in near : d(i) <= d(j) }
        IN  /\ last.ret \in (-1)..(n - 2)
            /\ (0 \in closest \/ (n - 1) \in closest) => last.ret = 0

\* a hit test on a Polygon whose closing coordinate is a closest one
C4_Witness ==
    /\ HitTested
    /\ HitGeometry.type = "Polygon"
    /\ (Len(CoordsOf(HitGeometry)) - 1) \in NearIndices(last.event, HitGeometry)
    /\ last.ret = 0

CoordDragged == last.op = "dragCoordinate" /\ last.ret = "true"
DragBefore == CoordsOf(last.pre.store[last.id])
DragAfter == CoordsOf(store[last.id])
DragTo == <<last.event.lng, last.event.lat>>

\* C5: drag(event, id, index) with index in 0..n-1 commits the coordinate at
\* index as the event position and leaves every other coordinate as it was,
\* except that index 0 or n-1 of a Polygon sets both the first and the last
\* coordinate and leaves 1..n-2 as they were.
C5_DragMovesOneCoordinate ==
    (CoordDragged /\ last.index \in 0..(Len(DragBefore) - 1)) =>
        LET n == Len(DragBefore)
            moved == IF /\ store[last.id].type = "Polygon"
                        /\ last.index \in {0, n - 1}
                     THEN {0, n - 1} ELSE {last.index}
        IN  /\ Len(DragAfter) = n
            /\ \A i \in 0..(n - 1) :
                  At(DragAfter, i) = IF i \in moved THEN DragTo ELSE At(DragBefore, i)
            /\ last.updates[1][1].geometry = store[last.id]

\* a drag of the first coordinate of a Polygon to a new position
C5_Witness ==
    /\ CoordDragged
    /\ store[last.id].type = "Polygon"
    /\ last.index = 0
    /\ At(DragBefore, 0) # DragTo
    /\ At(DragAfter, Len(DragAfter) - 1) = DragTo

\* C6: drag on a Point returns false and calls neither updateGeometry nor
\* setDraggability; on a LineString or Polygon it returns true and calls
\* updateGeometry once, with a list holding the selected feature and nothing
\* else.
C6_DragCommitsOnlyTheFeature ==
    last.op = "dragCoordinate" =>
        IF last.pre.store[last.id].type = "Point"
        THEN /\ last.ret = "false"
             /\ last.updates = <<>>
             /\ last.draggability = <<>>
             /\ store = last.pre.store
        ELSE /\ last.ret = "true"
             /\ Len(last.updates) = 1
             /\ Len(last.updates[1]) = 1
             /\ last.updates[1][1].kind = "feature"
             /\ last.updates[1][1].id = last.id

\* a drag on a selected LineString or Polygon that owns handles
C6_Witness ==
    /\ CoordDragged
    /\ last.id = selectedId
    /\ Len(selectionPoints) > 0
    /\ Len(midPoints) > 0
    /\ Len(last.updates[1]) = 1

-----------------------------------------------------------------------------
(* Feature-Drag alone: the drag gesture on any feature *)

MaxDragOps == 3

\* pointer positions: the origin, half a degree off it, and two far moves
\* that push a feature over a latitude or a longitude bound
DragEvents ==
    { Event(0, 0, TRUE), Event(1, 1, TRUE), Event(Deg(3), Deg(85), TRUE),
      Event(Deg(175), Deg(-2), TRUE) }

NextDrag ==
    \/ \E e \in DragEvents : \E id \in Ids :
          StartDragging(e, id) /\ Tick(MaxDragOps)
    \/ StopDragging /\ Tick(MaxDragOps)
    \/ \E e \in DragEvents : DragFeatureDrag(e) /\ Tick(MaxDragOps)

SpecDrag == InitDrag /\ [][NextDrag]_vars

-----------------------------------------------------------------------------
(* Properties of Feature-Drag *)

FeatureDragTick == last.op = "dragFeature"
TickId == last.pre.draggedFeatureId
TickAnchor == last.pre.dragPosition
TickPointer == <<last.event.lng, last.event.lat>>
TickGeometry == last.pre.store[TickId]

\* a drag tick on a LineString or Polygon while dragging
LineOrPolygonTick ==
    /\ FeatureDragTick
    /\ TickId # null
    /\ TickGeometry.type \in {"LineString", "Polygon"}

\* a feature update of an updateGeometry call names this id
Writes(call, id) ==
    \E k \in 1..Len(call) : call[k].kind = "feature" /\ call[k].id = id

\* C7: isDragging() is false initially and afterwards true exactly when the
\* most recent of startDragging/stopDragging was startDragging; one feature id
\* at most is held, the one of the most recent startDragging; drag writes to
\* the store only while dragging and only to that feature, and a drag while
\* not dragging changes neither the store nor the anchor.
C7_DragStateMachine ==
    /\ draggedFeatureId \in Ids \cup {null}
    /\ last.op = "new" => ~isDragging
    /\ last.op = "startDragging" => isDragging /\ draggedFeatureId = last.id
    /\ last.op = "stopDragging" => ~isDragging
    /\ last.op \notin {"new", "startDragging", "stopDragging"} =>
          draggedFeatureId = last.pre.draggedFeatureId
    /\ FeatureDragTick =>
          IF TickId = null
          THEN /\ last.updates = <<>>
               /\ store = last.pre.store
               /\ dragPosition = last.pre.dragPosition
          ELSE /\ \A id \in Ids \ {TickId} :
                     /\ store[id] = last.pre.store[id]
                     /\ \A c \in 1..Len(last.updates) : ~Writes(last.updates[c], id)

\* a drag tick that moved the dragged feature, the startDragging before it
\* having replaced a gesture on another feature
C7_Witness ==
    /\ FeatureDragTick
    /\ TickId # null
    /\ store[TickId] # last.pre.store[TickId]
    /\ prev.op = "startDragging"
    /\ prev.pre.draggedFeatureId \notin {null, TickId}

\* value + pointer - anchor of a coordinate, before any rounding
Translated(c) ==
    <<c[1] + TickPointer[1] - TickAnchor[1], c[2] + TickPointer[2] - TickAnchor[2]>>

OutOfRange(c) ==
    \/ c[1] > Deg(MaxLng) \/ c[1] < -Deg(MaxLng)
    \/ c[2] > Deg(MaxLat) \/ c[2] < -Deg(MaxLat)

SomeOutOfRange ==
    \E i \in 1..Len(CoordsOf(TickGeometry)) :
        OutOfRange(Translated(CoordsOf(TickGeometry)[i]))

\* C8: a drag tick on a LineString or Polygon for which some shifted
\* coordinate would be out of range commits nothing: no updateGeometry call,
\* geometry and handles as before the tick, anchor not advanced.
C8_RejectCommitsNothing ==
    (LineOrPolygonTick /\ SomeOutOfRange) =>
        /\ last.updates = <<>>
        /\ store = last.pre.store
        /\ selectionPoints = last.pre.selectionPoints
        /\ midPoints = last.pre.midPoints
        /\ dragPosition = last.pre.dragPosition

\* a rejected tick in which a coordinate before the offending one was in range
C8_Witness ==
    /\ LineOrPolygonTick
    /\ last.ret = "false"
    /\ ~OutOfRange(Translated(CoordsOf(TickGeometry)[1]))
    /\ TickPointer # TickAnchor

\* C9: a successful drag tick on a LineString or Polygon moves every
\* coordinate but the closing one of a Polygon to (old + pointer - anchor)
\* rounded to the precision, and the anchor becomes the pointer position; on a
\* Point the committed position is the pointer position and the anchor is
\* advanced as well.
C9_RigidTranslation ==
    (FeatureDragTick /\ TickId # null /\ last.updates # <<>>) =>
        /\ dragPosition = TickPointer
        /\ IF TickGeometry.type = "Point"
           THEN store[TickId] = Point(TickPointer)
           ELSE LET old == CoordsOf(TickGeometry)
                    new == CoordsOf(store[TickId])
                IN  /\ Len(new) = Len(old)
                    /\ \A i \in 1..upToCoordOf(TickGeometry) :
                          /\ new[i][1] = limitPrecision(Translated(old[i])[1])
                          /\ new[i][2] = limitPrecision(Translated(old[i])[2])

\* a successful tick that moved a Polygon by an offset that is not zero
C9_Witness ==
    /\ LineOrPolygonTick
    /\ TickGeometry.type = "Polygon"
    /\ last.updates # <<>>
    /\ TickPointer[1] # TickAnchor[1]
    /\ TickPointer[2] # TickAnchor[2]
    /\ store[TickId] # TickGeometry

\* two consecutive drag ticks of one gesture on a LineString or Polygon, the
\* second with the pointer back on the anchor the first started from
ThereAndBack ==
    /\ LineOrPolygonTick
    /\ prev.op = "dragFeature"
    /\ prev.pre.draggedFeatureId = TickId
    /\ TickPointer = prev.pre.dragPosition

BeforeBoth == CoordsOf(prev.pre.store[TickId])
AfterBoth == CoordsOf(store[TickId])

\* every value of the positions is at the configured precision
AllAtPrecision(positions) ==
    \A i \in 1..Len(positions) :
        AtPrecision(positions[i][1]) /\ AtPrecision(positions[i][2])

\* C10: a drag tick to p + d followed by a drag tick back to the anchor p
\* returns every coordinate to its value before the first tick within one
\* step of the precision, and exactly when the coordinates and both pointer
\* positions are at the precision, whether or not the first tick was rejected.
C10_Reversible ==
    ThereAndBack =>
        /\ Len(AfterBoth) = Len(BeforeBoth)
        /\ \A i \in 1..Len(BeforeBoth) : \A k \in 1..2 :
              Abs(AfterBoth[i][k] - BeforeBoth[i][k]) <= Res
        /\ AllAtPrecision(BeforeBoth \o <<TickPointer, TickAnchor>>)
              => AfterBoth = BeforeBoth

\* C10 as amended: the same, provided the tick back to p is not itself
\* rejected for bounds.
C10_ReversibleWhenAccepted ==
    (ThereAndBack /\ last.updates # <<>>) =>
        /\ Len(AfterBoth) = Len(BeforeBoth)
        /\ \A i \in 1..Len(BeforeBoth) : \A k \in 1..2 :
              Abs(AfterBoth[i][k] - BeforeBoth[i][k]) <= Res
        /\ AllAtPrecision(BeforeBoth \o <<TickPointer, TickAnchor>>)
              => AfterBoth = BeforeBoth

\* a tick that moved the feature followed by the tick that moved it back
C10_Witness ==
    /\ ThereAndBack
    /\ prev.updates # <<>>
    /\ last.updates # <<>>
    /\ TickPointer # TickAnchor
    /\ CoordsOf(TickGeometry) # BeforeBoth
    /\ AfterBoth = BeforeBoth

-----------------------------------------------------------------------------
(* Properties of the store under the three behaviours together *)

\* coordinates[0] equals coordinates[last]
Closed(geometry) ==
    geometry.type = "Polygon" =>
        CoordsOf(geometry)[1] = CoordsOf(geometry)[Len(CoordsOf(geometry))]

\* C1: every Polygon of the store has a closed ring, coordinates[0] equal to
\* coordinates[last], after any sequence of Coordinate-Drag (index in
\* 0..n-1), Feature-Drag and Feature-Scale calls, and so has every Polygon
\* handed to updateGeometry.  (A scale tick at distance 0 stores the same
\* value that is not finite at both ends of the ring.)
C1_RingClosed ==
    /\ \A id \in Ids : Closed(store[id])
    /\ \A c \in 1..Len(last.updates) : \A k \in 1..Len(last.updates[c]) :
          Closed(last.updates[c][k].geometry)

\* a Polygon that a drag had moved already, committed anew by a scale tick
C1_Witness ==
    /\ store[selectedId].type = "Polygon"
    /\ last.op = "scale"
    /\ last.updates # <<>>
    /\ last.pre.store[selectedId] # InitialStore[selectedId]
    /\ store[selectedId] # last.pre.store[selectedId]
    /\ Finite(store[selectedId])

\* C2: every longitude and latitude of every stored feature is at the
\* configured precision after any mutation through Coordinate-Drag,
\* Feature-Drag or Feature-Scale.
C2_AllRounded ==
    \A id \in Ids : AllAtPrecision(Positions(store[id]))

-----------------------------------------------------------------------------
(* Properties of the handles of the selected feature *)

\* the last call committed new coordinates for the selected LineString or
\* Polygon
MovedSelected ==
    /\ last.op \in {"dragCoordinate", "dragFeature", "scale"}
    /\ last.id = selectedId
    /\ store[selectedId].type \in {"LineString", "Polygon"}
    /\ last.updates # <<>>
    /\ store[selectedId] # last.pre.store[selectedId]

\* the handles are the ones the managers derive from the stored coordinates
HandlesFollow ==
    /\ selectionPoints = createSelectionPoints(store[selectedId])
    /\ midPoints = createMidPoints(store[selectedId])

\* C11: after every commit in which Coordinate-Drag, Feature-Drag or
\* Feature-Scale changes the coordinates of the selected LineString or
\* Polygon, the selection points and midpoints are the ones derived from the
\* new coordinates, and their updates are part of the same updateGeometry
\* list as the feature.
C11_HandlesFollowEveryCommit ==
    MovedSelected =>
        /\ Len(last.updates) = 1
        /\ Len(last.updates[1]) = 1 + Len(selectionPoints) + Len(midPoints)
        /\ HandlesFollow

-----------------------------------------------------------------------------
(* Feature-Scale alone: scale gestures on the selected feature and on the
   Point, between vertex drags that leave a coordinate off precision *)

MaxScaleOps == 3

\* pointer positions: half a degree beside the centroid of the initial
\* Polygon, on that centroid, on the centroid of the initial LineString, and
\* far from both
ScaleEvents ==
    { Event(Deg(5) + 1, Deg(5), TRUE), Event(Deg(5), Deg(5), TRUE),
      Event(Deg(2), 0, FALSE), Event(Deg(3), Deg(85), TRUE) }

NextScale ==
    \/ \E e \in ScaleEvents : \E id \in {selectedId, "pt"} :
          /\ Finite(store[id])
          /\ Scale(e, id)
          /\ Tick(MaxScaleOps)
    \/ Reset /\ Tick(MaxScaleOps)
    \/ /\ store[selectedId].type # "Point"
       /\ Finite(store[selectedId])
       /\ DragCoordinateDrag(Event(1, 1, TRUE), selectedId, 1)
       /\ Tick(MaxScaleOps)

SpecScale == Init /\ [][NextScale]_vars

-----------------------------------------------------------------------------
(* Properties of Feature-Scale *)

ScaleCalled == last.op = "scale"
ScaleGeometry == last.pre.store[last.id]
ScalePointer == <<last.event.lng, last.event.lat>>
ScaleDistance == haversineDistanceKilometers(centroid(ScaleGeometry), ScalePointer)
StoreUntouched ==
    /\ last.updates = <<>>
    /\ store = last.pre.store
    /\ selectionPoints = last.pre.selectionPoints
    /\ midPoints = last.pre.midPoints

\* C12: lastDistance is unset after construction and after reset(), and no
\* call but scale sets it; a scale call on a LineString or Polygon that
\* finds it unset calls updateGeometry not at all and records the distance
\* from the centroid to the pointer as lastDistance.
C12_BaselineTick ==
    /\ last.op \in {"new", "reset"} => lastDistance = undefined
    /\ last.op \notin {"new", "reset", "scale"} =>
          lastDistance = last.pre.lastDistance
    /\ (/\ ScaleCalled
        /\ ScaleGeometry.type \in {"LineString", "Polygon"}
        /\ last.pre.lastDistance = undefined) =>
            /\ StoreUntouched
            /\ lastDistance = ScaleDistance

\* the first scale call after a reset() that ended a gesture with a baseline
C12_Witness ==
    /\ ScaleCalled
    /\ ScaleGeometry.type \in {"LineString", "Polygon"}
    /\ prev.op = "reset"
    /\ prev.pre.lastDistance # undefined
    /\ last.updates = <<>>
    /\ lastDistance # undefined
    /\ Num(lastDistance) > 0

\* C13: scale on a Point calls neither updateGeometry nor setDraggability
\* and leaves lastDistance as it was, set or unset.
C13_ScalePointNoOp ==
    (ScaleCalled /\ ScaleGeometry.type = "Point") =>
        /\ StoreUntouched
        /\ last.draggability = <<>>
        /\ lastDistance = last.pre.lastDistance

\* scale on the Point, in the middle of a gesture on another feature, with
\* an event that carries setDraggability
C13_Witness ==
    /\ ScaleCalled
    /\ ScaleGeometry.type = "Point"
    /\ last.event.setDraggability
    /\ last.pre.lastDistance # undefined
    /\ lastDistance = last.pre.lastDistance

\* a scale call past the baseline whose distance equals lastDistance
ScaleByOne ==
    /\ ScaleCalled
    /\ ScaleGeometry.type \in {"LineString", "Polygon"}
    /\ ~noLastDistance(last.pre.lastDistance)
    /\ Num(ScaleDistance) * Den(last.pre.lastDistance)
          = Num(last.pre.lastDistance) * Den(ScaleDistance)

\* C14: a scale tick past the baseline whose distance from the centroid to
\* the pointer equals lastDistance commits every coordinate within half a
\* step of the precision of its value before the tick, and exactly that
\* value where it was at the precision.
C14_ScaleByOneIsIdentity ==
    ScaleByOne =>
        LET before == CoordsOf(ScaleGeometry)
            after == CoordsOf(store[last.id])
        IN  /\ last.updates # <<>>
            /\ Len(after) = Len(before)
            /\ \A i \in 1..Len(before) : \A k \in 1..2 :
                  /\ 2 * Abs(after[i][k] - before[i][k]) <= Res
                  /\ AtPrecision(before[i][k]) => after[i][k] = before[i][k]

\* such a tick on a feature holding a coordinate off the precision
C14_Witness ==
    /\ ScaleByOne
    /\ last.updates # <<>>
    /\ ~AllAtPrecision(CoordsOf(ScaleGeometry))
    /\ store[last.id] # ScaleGeometry

\* C15: a scale tick never commits a longitude outside [-180,180] or a
\* latitude outside [-90,90]: after a scale call every coordinate of the
\* feature is within the valid range.
C15_ScaleStaysInRange ==
    ScaleCalled =>
        \A i \in 1..Len(Positions(store[last.id])) :
            validCoordinate(Positions(store[last.id])[i][1],
                            Positions(store[last.id])[i][2])

-----------------------------------------------------------------------------
(* Properties of the three behaviours towards the host map *)

\* C16: every Coordinate-Drag, Feature-Drag or Feature-Scale tick that
\* commits a geometry calls event.setDraggability(false) when the event
\* carries setDraggability.
C16_MutatingTickSuspendsMap ==
    (/\ last.op \in {"dragCoordinate", "dragFeature", "scale"}
     /\ last.updates # <<>>
     /\ last.event.setDraggability) =>
        last.draggability = <<FALSE>>

-----------------------------------------------------------------------------
(* The position accessor alone: a caller that builds arrays, assigns and
   reads position, and writes into the arrays it holds *)

MaxAccessOps == 4

\* arrays a caller may build: two positions, and arrays that are too short,
\* too long, or hold an element that is no number
PositionInputs ==
    { <<Number(0), Number(0)>>, <<Number(Deg(1)), Number(Deg(2))>>,
      <<Number(0)>>, <<Number(0), Number(0), Number(0)>>,
      <<Number(0), String>>, <<String, Number(0)>> }

\* one more accessor call, while the bound allows; the behaviours rest
AccessTick ==
    /\ ops < MaxAccessOps
    /\ ops' = ops + 1
    /\ UNCHANGED <<store, selectionPoints, midPoints, draggedFeatureId,
                   dragPosition, lastDistance, selectedId, last, prev>>
    /\ UNCHANGED adapterVars
    /\ UNCHANGED gesture

NextAccess ==
    \/ \E elements \in PositionInputs : NewArray(elements) /\ AccessTick
    \/ \E ref \in held : SetPosition(Array(ref)) /\ AccessTick
    \/ SetPosition(Undefined) /\ AccessTick
    \/ SetPosition(NoArray) /\ AccessTick
    \/ GetPosition /\ AccessTick
    \/ \E ref \in held : \E i \in {0, 1} : \E value \in {Number(Deg(7)), String} :
          Mutate(ref, i, value) /\ AccessTick

SpecAccess == InitFrom({InitialStore}) /\ [][NextAccess]_vars

-----------------------------------------------------------------------------
(* Properties of the position accessor *)

\* the value of the anchor: its elements, or <<>> when it is undefined
Anchor == IF dragPositionRef = NoRef THEN <<>> ELSE arrays[dragPositionRef]

\* a two-element array of numbers
WellFormed(elements) ==
    /\ Len(elements) = 2
    /\ elements[1].typeof = "number"
    /\ elements[2].typeof = "number"

\* the value handed to the setter, as it was when the setter ran
Assigned == arrays[access.arg.ref]

\* C17: assigning to position a value that is no two-element array of
\* numbers throws and leaves the anchor as it was; assigning undefined
\* clears the anchor; assigning a two-element array of numbers makes the
\* anchor a new array with the same elements; the getter returns undefined
\* for no anchor and otherwise a new array with the elements of the anchor;
\* the caller never holds the anchor's array, and no write of the caller
\* into an array it holds changes the anchor.
C17_PositionAccessor ==
    /\ dragPositionRef \notin held
    /\ access.op = "set" =>
          CASE access.arg.kind = "undefined" ->
                  ~access.threw /\ dragPositionRef = NoRef
            [] access.arg.kind = "object" ->
                  /\ access.threw
                  /\ dragPositionRef = access.beforeRef
                  /\ Anchor = access.before
            [] access.arg.kind = "array" ->
                  IF WellFormed(Assigned)
                  THEN /\ ~access.threw
                       /\ dragPositionRef # NoRef
                       /\ dragPositionRef # access.arg.ref
                       /\ Anchor = Assigned
                  ELSE /\ access.threw
                       /\ dragPositionRef = access.beforeRef
                       /\ Anchor = access.before
    /\ access.op = "get" =>
          /\ dragPositionRef = access.beforeRef
          /\ Anchor = access.before
          /\ IF dragPositionRef = NoRef THEN access.ret = NoRef
             ELSE /\ access.ret # NoRef
                  /\ access.ret # dragPositionRef
                  /\ arrays[access.ret] = Anchor
    /\ access.op \in {"mutate", "new"} =>
          /\ dragPositionRef = access.beforeRef
          /\ Anchor = access.before

\* the caller writes into an array that held what the anchor holds, as the
\* array it assigned to position or received from it does
C17_Witness ==
    /\ access.op = "mutate"
    /\ dragPositionRef # NoRef
    /\ Anchor = access.before
    /\ Len(arrays[access.arg.ref]) = 2
    /\ \E i \in 1..2 :
          /\ arrays[access.arg.ref][i] # Anchor[i]
          /\ arrays[access.arg.ref] = [Anchor EXCEPT ![i] = arrays[access.arg.ref][i]]

-----------------------------------------------------------------------------
(* The adapter alone: render and clear calls on one map *)

MaxAdapterOps == 4

\* config.drawOutline and config.drawFill, either way
InitAdapter ==
    /\ store = InitialStore
    /\ selectedId = "pg"
    /\ selectionPoints = createSelectionPoints(store[selectedId])
    /\ midPoints = createMidPoints(store[selectedId])
    /\ InitRest
    /\ drawOutline \in BOOLEAN
    /\ drawFill \in BOOLEAN

\* change sets: all features created; one updated among unchanged ones; a
\* change of style only; a deletion; a feature of a mode without style; and
\* a Point created beside an unchanged one
ChangeSets ==
    LET pt == Feature("p", "Point", "select")
        ls == Feature("l", "LineString", "select")
        pg == Feature("g", "Polygon", "select")
        other == Feature("o", "Point", "static")
        second == Feature("q", "Point", "select")
    IN  { Changes(<<pt, ls, pg>>, <<>>, <<>>, <<>>),
          Changes(<<second>>, <<>>, <<pt, ls, pg>>, <<>>),
          Changes(<<>>, <<pg>>, <<pt, ls>>, <<>>),
          Changes(<<>>, <<>>, <<pt, ls, pg>>, <<>>),
          Changes(<<>>, <<>>, <<pt, ls>>, <<"g">>),
          Changes(<<other>>, <<>>, <<>>, <<>>) }

\* one more adapter call, while the bound allows; the behaviours rest
AdapterTick ==
    /\ ops < MaxAdapterOps
    /\ ops' = ops + 1
    /\ UNCHANGED <<store, selectionPoints, midPoints, draggedFeatureId,
                   dragPosition, lastDistance, selectedId, last, prev>>
    /\ UNCHANGED accessVars
    /\ UNCHANGED gesture

NextAdapter ==
    \/ Register /\ AdapterTick
    \/ \E changes \in ChangeSets : \E strict \in BOOLEAN :
          Render(changes, strict) /\ AdapterTick
    \/ \E strict \in BOOLEAN : Clear(strict) /\ AdapterTick

SpecAdapter == InitAdapter /\ [][NextAdapter]_vars

-----------------------------------------------------------------------------
(* Properties of the adapter *)

\* the sources render adds, and the layers it adds for them
RenderedSources == {"td-point", "td-linestring", "td-polygon"}
RenderedLayers == RenderedSources \union {"td-polygon-outline"}

\* C18: clear(), called with the mode callbacks registered and after a
\* render, leaves the map without the sources td-point, td-linestring and
\* td-polygon and without their layers, td-polygon-outline among them, and
\* leaves the rendered flag reset.
C18_ClearRemovesLayers ==
    (/\ adapted.op = "clear"
     /\ adapted.pre.currentModeCallbacks
     /\ adapted.pre.rendered) =>
        /\ \A id \in RenderedSources : ~hasSource(map, id)
        /\ \A id \in RenderedLayers : ~hasLayer(map, id)
        /\ ~rendered

-----------------------------------------------------------------------------
(* Properties of a whole Feature-Drag gesture *)

\* a gesture is under way: startDragging was called and stopDragging not yet
InGesture == isDragging /\ dragPosition # undefined

\* the coordinates of the dragged feature now and when the gesture started
GestureNow == CoordsOf(store[draggedFeatureId])
GestureStart == CoordsOf(gesture.store[draggedFeatureId])

\* current anchor - anchor at startDragging
GestureShift ==
    <<dragPosition[1] - gesture.anchor[1], dragPosition[2] - gesture.anchor[2]>>

\* C19: within a Feature-Drag gesture, after any sequence of accepted and
\* rejected ticks, the anchor is the pointer position of the last accepted
\* tick, or the startDragging position if none was accepted; and when the
\* coordinates at startDragging, the startDragging position and the pointer
\* positions of the accepted ticks are all at the precision, each
\* non-closing coordinate of the dragged LineString or Polygon is its value
\* at startDragging plus (current anchor - anchor at startDragging).
C19_GestureTranslation ==
    InGesture =>
        /\ dragPosition = gesture.accepted
        /\ (/\ store[draggedFeatureId].type \in {"LineString", "Polygon"}
            /\ gesture.exact
            /\ AllAtPrecision(GestureStart)) =>
               /\ Len(GestureNow) = Len(GestureStart)
               /\ \A i \in 1..upToCoordOf(store[draggedFeatureId]) : \A k \in 1..2 :
                     GestureNow[i][k] = GestureStart[i][k] + GestureShift[k]

\* a gesture at the precision that moved the feature with an accepted tick
\* and then had a tick rejected
C19_Witness ==
    /\ InGesture
    /\ store[draggedFeatureId].type \in {"LineString", "Polygon"}
    /\ gesture.exact
    /\ AllAtPrecision(GestureStart)
    /\ last.op = "dragFeature"
    /\ last.ret = "false"
    /\ prev.op = "dragFeature"
    /\ prev.updates # <<>>
    /\ GestureShift # <<0, 0>>
    /\ GestureNow # GestureStart

-----------------------------------------------------------------------------
(* Properties of the updateGeometry list of Feature-Drag and Feature-Scale *)

\* the last call was a Feature-Drag or Feature-Scale tick on the selected
\* LineString or Polygon that called updateGeometry
HandleTick ==
    /\ last.op \in {"dragFeature", "scale"}
    /\ last.id = selectedId
    /\ last.pre.store[last.id].type \in {"LineString", "Polygon"}
    /\ last.updates # <<>>

\* the coordinates committed for the feature by the last call
Committed == CoordsOf(last.updates[1][1].geometry)

\* C20: a Feature-Drag or Feature-Scale tick that mutates makes exactly one
\* updateGeometry call; its list is the feature, then one update per
\* selection point, then one per midpoint; and the handle positions in it
\* are the ones derived from the coordinates committed for the feature in
\* that same list: selection point i at coordinate i, midpoint i at the
\* midpoint of coordinates i and i+1.
C20_HandlesFromCommittedCoords ==
    HandleTick =>
        LET list == last.updates[1]
            nSel == Len(last.pre.selectionPoints)
            nMid == Len(last.pre.midPoints)
        IN  /\ Len(last.updates) = 1
            /\ Len(list) = 1 + nSel + nMid
            /\ list[1].kind = "feature"
            /\ list[1].id = last.id
            /\ list[1].geometry = store[last.id]
            /\ \A i \in 1..nSel :
                  /\ list[1 + i].kind = "selectionPoint"
                  /\ list[1 + i].index = i - 1
                  /\ list[1 + i].geometry.coordinates = Committed[i]
            /\ \A i \in 1..nMid :
                  /\ list[1 + nSel + i].kind = "midPoint"
                  /\ list[1 + nSel + i].index = i - 1
                  /\ list[1 + nSel + i].geometry.coordinates
                        = midpoint(Committed[i], Committed[i + 1])

\* a scale tick that moved a Polygon with its four selection points and
\* four midpoints
C20_Witness ==
    /\ HandleTick
    /\ last.op = "scale"
    /\ store[last.id].type = "Polygon"
    /\ Len(last.pre.selectionPoints) = 4
    /\ Len(last.pre.midPoints) = 4
    /\ Committed # CoordsOf(last.pre.store[last.id])
    /\ Finite(store[last.id])

-----------------------------------------------------------------------------
(* Properties of the scale factor *)

\* a scale call on a LineString or Polygon
ScaleOnShape ==
    ScaleCalled /\ ScaleGeometry.type \in {"LineString", "Polygon"}

\* such a call that is not the first since construction or reset(): it
\* finds a lastDistance recorded by a call before it
PastBaseline == ScaleOnShape /\ last.pre.lastDistance # undefined

\* 1 - (L - d) / d as the rational (d - (L - d)) / d, for the rationals
\* L = lastD and d = distance
FactorOf(lastD, distance) ==
    LET lessNum == Num(lastD) * Den(distance) - Num(distance) * Den(lastD)
        common == Den(lastD) * Den(distance)
    IN  [num |-> (Num(distance) * Den(lastD) - lessNum) * Den(distance),
         den |-> Num(distance) * common,
         finite |-> Num(distance) # 0]

\* the coordinates a scale by that factor about the centroid gives
ScaledBy(factor) ==
    [i \in 1..Len(CoordsOf(ScaleGeometry)) |->
        [k \in 1..2 |->
            scaledValue(CoordsOf(ScaleGeometry)[i][k],
                        centroid(ScaleGeometry).sum[k],
                        centroid(ScaleGeometry).n, factor)]]

\* C21: every scale call on a LineString or Polygon that is not the first
\* since construction or reset() commits the coordinates scaled by
\* 1 - (lastDistance - distance) / distance, distance being the distance
\* from the centroid to the pointer; and after every scale call on a
\* LineString or Polygon lastDistance is the distance computed in it.
C21_FactorAndBaseline ==
    /\ PastBaseline =>
          /\ last.updates # <<>>
          /\ CoordsOf(store[last.id])
                = ScaledBy(FactorOf(last.pre.lastDistance, ScaleDistance))
    /\ ScaleOnShape => lastDistance = ScaleDistance


\* a scale call that called updateGeometry
ScaleCommitted == ScaleOnShape /\ last.updates # <<>>

\* C22: on every scale tick that commits, the distance the factor divides
\* by is not 0 and no committed coordinate is a value that is not finite,
\* wherever the pointer is, the centroid included, at the baseline tick and
\* at every later one.
C22_FactorWellDefined ==
    ScaleCommitted =>
        /\ Num(ScaleDistance) # 0
        /\ \A i \in 1..Len(CoordsOf(store[last.id])) : \A k \in 1..2 :
              CoordsOf(store[last.id])[i][k] # NonFinite

\* the factor the tick applied, as the code computes it
AppliedFactor == scaleFactor(last.pre.lastDistance, ScaleDistance)

\* C27: on every scale tick that commits with lastDistance and the current
\* distance both positive, the factor applied is strictly positive.
C27_FactorPositive ==
    (/\ ScaleCommitted
     /\ Num(last.pre.lastDistance) > 0
     /\ Num(ScaleDistance) > 0) =>
        AppliedFactor.num * AppliedFactor.den > 0

-----------------------------------------------------------------------------
(* The clamp variant of Feature-Drag alone: the caller assigns position and
   calls drag on the selected feature *)

MaxClampOps == 4

\* features with latitudes on both sides of the equator, as Coordinate-Drag
\* can leave them
ClampStore ==
    [id \in Ids |->
        CASE id = "pt" -> Point(<<Deg(1), Deg(1)>>)
          [] id = "ls" -> LineString(<< <<0, Deg(10)>>, <<Deg(4), Deg(-10)>> >>)
          [] id = "pg" -> Polygon(<< <<0, Deg(10)>>, <<0, Deg(-10)>>,
                                     <<Deg(10), Deg(-10)>>, <<0, Deg(10)>> >>)]

InitClamp == InitFrom({InitialStore, ClampStore})

\* anchors the caller assigns: near the latitude bound, and at the origin
ClampAnchors ==
    { <<Number(0), Number(Deg(85))>>, <<Number(0), Number(0)>> }

\* pointer positions: far south of the first anchor, half a degree off the
\* origin, and far north
ClampEvents ==
    { Event(0, Deg(-15), TRUE), Event(1, 1, FALSE), Event(Deg(2), Deg(80), TRUE) }

NextClamp ==
    \/ \E elements \in ClampAnchors : NewArray(elements) /\ AccessTick
    \/ \E ref \in held : SetPosition(Array(ref)) /\ AccessTick
    \/ SetPosition(Undefined) /\ AccessTick
    \/ \E e \in ClampEvents :
          /\ Finite(store[selectedId])
          /\ ClampDrag(e, selectedId)
          /\ Tick(MaxClampOps)

SpecClamp == InitClamp /\ [][NextClamp]_vars

-----------------------------------------------------------------------------
(* Properties of the clamp variant *)

\* every latitude of the coordinates is within [-bound, bound] degrees
LatitudesWithin(coords, bound) ==
    \A i \in 1..Len(coords) :
        -Deg(bound) <= coords[i][2] /\ coords[i][2] <= Deg(bound)

\* C23: a drag tick of the clamp variant on a LineString or Polygon whose
\* latitudes are all within [-85, 85], with the latitudes of the anchor and
\* of the pointer within [-90, 90], commits latitudes within [-85, 85] only.
C23_ClampKeepsLatitudes ==
    (/\ last.op = "clampDrag"
     /\ last.updates # <<>>
     /\ last.pre.store[last.id].type \in {"LineString", "Polygon"}
     /\ LatitudesWithin(CoordsOf(last.pre.store[last.id]), ClampLat)
     /\ LatitudesWithin(<<anchorOf(dragPositionRef)>>, MaxLat)
     /\ LatitudesWithin(<< <<last.event.lng, last.event.lat>> >>, MaxLat)) =>
        LatitudesWithin(CoordsOf(store[last.id]), ClampLat)

-----------------------------------------------------------------------------
(* Properties of render *)

\* the last call was a render that found the sources rendered already
LaterRender == adapted.op = "render" /\ adapted.pre.rendered

RenderTypes == {"Point", "LineString", "Polygon"}
SourceOf(type) == td(toLowerCase(type))

\* the features of a list that have the type (all of them, or those of a
\* mode the styling has a function for), and their ids
OfType(list, type, styledOnly) ==
    SelectSeq(list, LAMBDA f : f.type = type
                               /\ (styledOnly => f.mode \in StyledModes))
IdsOf(list) == [i \in 1..Len(list) |-> list[i].id]

\* the data render handed to setData for the source of the type, if any
Replaced(type) ==
    \E i \in 1..Len(adapted.calls) :
        adapted.calls[i].call = "setData" /\ adapted.calls[i].id = SourceOf(type)
DataOf(type) ==
    LET i == CHOOSE i \in 1..Len(adapted.calls) :
                 adapted.calls[i].call = "setData"
                 /\ adapted.calls[i].id = SourceOf(type)
    IN  adapted.calls[i].features

\* render replaces all three sources for deleted ids or a change set of
\* unchanged features only, and otherwise the sources that have a created or
\* updated feature of their type; the data is the created and updated
\* features of the type, then the unchanged ones
ReplacesAsChanged(styledOnly) ==
    LET c == adapted.changes
        all == \/ Len(c.deletedIds) > 0
               \/ /\ Len(c.created) = 0
                  /\ Len(c.updated) = 0
                  /\ Len(c.unchanged) > 0
    IN  \A type \in RenderTypes :
           /\ Replaced(type) <=>
                 \/ all
                 \/ OfType(c.created \o c.updated, type, styledOnly) # <<>>
           /\ Replaced(type) =>
                 IdsOf(DataOf(type))
                    = IdsOf(OfType(c.created \o c.updated, type, styledOnly)
                            \o OfType(c.unchanged, type, styledOnly))

\* C24: on every render after the first, with no clear in between, the data
\* of all three sources is replaced if the change set has deleted ids or
\* only unchanged features; otherwise the data of a source is replaced
\* exactly when the change set has a created or updated feature of its
\* type; and the data of a replaced source is the created and updated
\* features of the type followed by the unchanged ones.
C24_RenderReplaces == LaterRender => ReplacesAsChanged(FALSE)

\* C24 as amended: the same, counting only the features whose mode the
\* styling has a function for.
C24_RenderReplacesStyled == LaterRender => ReplacesAsChanged(TRUE)

\* a later render that replaced the points, a created one followed by an
\* unchanged one, and left the linestrings and polygons alone
C24_Witness ==
    /\ LaterRender
    /\ ~adapted.threw
    /\ Replaced("Point")
    /\ Len(DataOf("Point")) = 2
    /\ ~Replaced("LineString")
    /\ ~Replaced("Polygon")
    /\ \E i \in 1..Len(map.sources) :
          /\ map.sources[i].id = "td-point"
          /\ map.sources[i].features = DataOf("Point")

-----------------------------------------------------------------------------
(* Properties of the calls made on the map *)

RECURSIVE firstMiss(_, _)
\* the first of the calls that finds the map without what it applies to, or
\* with what it adds: the calls before it all apply, so it is made whether
\* the map throws on such a call or ignores it
firstMiss(m, calls) ==
    IF calls = <<>> THEN <<>>
    ELSE IF misses(m, Head(calls)) THEN << Head(calls) >>
    ELSE firstMiss(applied(m, Head(calls)), Tail(calls))

\* C25: across any sequence of render and clear calls, addSource and
\* addLayer are never called with an id the map has already and setData is
\* never called on a source the map lacks.
C25_AddsOnlyAbsent ==
    \A i \in 1..Len(firstMiss(adapted.pre.map, adapted.calls)) :
        firstMiss(adapted.pre.map, adapted.calls)[i].call
            \notin {"addSource", "addLayer", "setData"}

-----------------------------------------------------------------------------
(* The three behaviours with any index passed to Coordinate-Drag *)

MaxIndexOps == 2

\* the indices a caller may pass for a coordinate array: one before the
\* first, the valid ones, the length and one past it
Indices(coords) == -1..(Len(coords) + 1)

NextIndex ==
    \/ \E e \in Events :
          \E index \in Indices(Positions(store[selectedId])) :
              /\ Finite(store[selectedId])
              /\ DragCoordinateDrag(e, selectedId, index)
              /\ Tick(MaxIndexOps)
    \/ \E e \in Events : StartDragging(e, selectedId) /\ Tick(MaxIndexOps)
    \/ StopDragging /\ Tick(MaxIndexOps)
    \/ \E e \in Events :
          /\ isDragging => Finite(store[draggedFeatureId])
          /\ DragFeatureDrag(e)
          /\ Tick(MaxIndexOps)
    \/ \E e \in Events :
          /\ Finite(store[selectedId])
          /\ Scale(e, selectedId)
          /\ Tick(MaxIndexOps)

SpecIndex == Init /\ [][NextIndex]_vars

\* C26: the geometry committed by Coordinate-Drag, Feature-Drag or
\* Feature-Scale has as many coordinates as the geometry read at the start
\* of the call, whatever the arguments, the index passed to Coordinate-Drag
\* among them.
C26_CoordinateCountKept ==
    (/\ last.op \in {"dragCoordinate", "dragFeature", "scale"}
     /\ last.updates # <<>>) =>
        Len(Positions(store[last.id])) = Len(Positions(last.pre.store[last.id]))

=============================================================================
